---- MODULE Spec2Model ----
(***************************************************************************)
(* redditFetcher (src/main.go): a token exchange, a scheduler loop (main)  *)
(* that launches one FetchRedditData goroutine per cycle and waits for it, *)
(* a StatsManager (aggregator + rate-limit fields, one sync.Mutex) and a   *)
(* background StartStatsPrinting goroutine.                                *)
(*                                                                         *)
(* Time is in whole seconds.  The zero time.Time (resetTime unset) lies    *)
(* before the Unix epoch, so it is the integer ZeroTime < 0; the Unix      *)
(* epoch is 0 and the process starts at second 1.                          *)
(***************************************************************************)
EXTENDS Integers, Sequences, FiniteSets, TLC

\* ------------------------------------------------------------ bounds
MaxTime == 7        \* the clock saturates here; reset headers are 0..MaxTime
MaxRemaining == 1   \* largest X-RateLimit-Remaining value / initial quota
MaxFetchers == 2    \* goroutine slots for FetchRedditData invocations
MaxPosts == 2       \* children in one listing
MaxServed == 2      \* posts the server hands out over one run of Spec
MaxPassed == 3      \* posts passed over one run of AggSpec
MaxUpvotes == 1     \* scores range over -MaxUpvotes..MaxUpvotes

\* ------------------------------------------------------------ program constants
ZeroTime == -1
LimitInterval == 5
StatusOK == 200
StatusTooManyRequests == 429

Authors == {"alice", "bob"}
Titles == {"", "t"}
Upvotes == (0 - MaxUpvotes)..MaxUpvotes
FetcherIds == 1..MaxFetchers

\* RedditPost
RedditPost == [Title : Titles, Author : Authors, Upvotes : Upvotes]
ZeroPost == [Title |-> "", Author |-> "", Upvotes |-> 0]

Max(a, b) == IF a >= b THEN a ELSE b
Min(a, b) == IF a <= b THEN a ELSE b

\* Sequences over S of length at most n
SeqsUpTo(S, n) == UNION {[1..k -> S] : k \in 0..n}

\* ------------------------------------------------------------ aggregator
\* Stats as NewStatsManager builds it: an empty map (every count 0) and the
\* zero RedditPost.
NewStats == [TopUsers |-> [a \in Authors |-> 0], MostUpvotedPost |-> ZeroPost]

\* UpdateStats storing 1 instead of incrementing.
UpdatePost_SetOne(st, post) ==
    [TopUsers |-> [st.TopUsers EXCEPT ![post.Author] = 1],
     MostUpvotedPost |-> IF post.Upvotes > st.MostUpvotedPost.Upvotes
                         THEN post
                         ELSE st.MostUpvotedPost]

\* UpdateStats with the comparison the wrong way round.
UpdatePost_Reversed(st, post) ==
    [TopUsers |-> [st.TopUsers EXCEPT ![post.Author] = @ + 1],
     MostUpvotedPost |-> IF post.Upvotes < st.MostUpvotedPost.Upvotes
                         THEN post
                         ELSE st.MostUpvotedPost]

\* One iteration of the loop of UpdateStats.
UpdatePost(st, post) ==
    [TopUsers |-> [st.TopUsers EXCEPT ![post.Author] = @ + 1],
     MostUpvotedPost |-> IF post.Upvotes > st.MostUpvotedPost.Upvotes
                         THEN post
                         ELSE st.MostUpvotedPost]

\* The whole loop of UpdateStats.
RECURSIVE UpdateStats(_, _)
UpdateStats(st, posts) ==
    IF posts = <<>> THEN st
    ELSE UpdateStats(UpdatePost(st, Head(posts)), Tail(posts))

\* PrintStats prints the most-upvoted post only when its title is not empty.
PrintsTopPost(st) == st.MostUpvotedPost.Title # ""

\* ------------------------------------------------------------ HTTP values
\* A header: absent, an integer, or text that is no integer.
Header(vals) == {[kind |-> "absent", val |-> 0], [kind |-> "garbage", val |-> 0]}
                \cup [kind : {"int"}, val : vals]
RemainingHeaders == Header(0..MaxRemaining)
ResetHeaders == Header(0..MaxTime)

\* The header merged with the old value instead of overwriting it.
Sscanf_KeepLarger(hdr, old) == IF hdr.kind = "int" THEN Max(hdr.val, old) ELSE old

\* fmt.Sscanf(remaining, "%d", &sm.remainingRequests): a failed scan leaves the field.
Sscanf(hdr, old) == IF hdr.kind = "int" THEN hdr.val ELSE old

\* strconv.ParseInt with its error dropped (0 on failure), then time.Unix(resetUnix, 0).
ParseReset(hdr) == IF hdr.kind = "int" THEN hdr.val ELSE 0

\* The posts the server hands out in Spec: both authors, a negative and a
\* positive score.  (AggSpec passes every RedditPost.)
ServedPosts == [Title : {"t"}, Author : Authors, Upvotes : {0 - 1, 1}]

\* A child of data.children: a well-formed post, or one with a missing or
\* wrongly typed data/title/author/score.
Children == [ok : {TRUE}, post : ServedPosts] \cup {[ok |-> FALSE, post |-> ZeroPost]}
\* A response body: undecodable, JSON without data.children, or a listing.
Bodies(room) ==
    {[kind |-> "decodeErr", children |-> <<>>], [kind |-> "badShape", children |-> <<>>]}
    \cup [kind : {"listing"}, children : SeqsUpTo(Children, Min(MaxPosts, room))]

\* A failed assertion only ending the walk, the posts got so far kept.
WalkPanics_KeepsPrefix(body) == body.kind = "badShape"

\* The type assertions of the walk: any failing one panics.
WalkPanics(body) ==
    \/ body.kind = "badShape"
    \/ \E i \in 1..Len(body.children) : ~body.children[i].ok

\* The posts the walk appends: those of the children before the first one
\* whose assertions fail.
WalkPosts(body) ==
    LET bad == {i \in 1..Len(body.children) : ~body.children[i].ok}
        n == IF bad = {} THEN Len(body.children)
             ELSE (CHOOSE i \in bad : \A j \in bad : i <= j) - 1
    IN  [i \in 1..n |-> body.children[i].post]

\* ------------------------------------------------------------ state
VARIABLES
    proc,               \* "running" | "exited" (log.Fatal) | "crashed" (panic)
    token,              \* outcome of FetchAccessToken, "none" before it
    pcMain,             \* "token" | "eval" | "wait" | "resetSleep" | "pause"
    cur,                \* the slot whose WaitGroup main waits on (0: none)
    wakeAt,             \* when main's current time.Sleep ends (0: not asleep)
    now,                \* the clock
    stats,              \* sm.stats
    remainingRequests,  \* sm.remainingRequests
    resetTime,          \* sm.resetTime
    mu,                 \* sm.mu: its holder
    fetch,              \* FetchRedditData invocations, by slot
    wg,                 \* the WaitGroup counter handed to each slot
    pcPrinter,          \* "off" | "sleep" | "lock" | "print"
    passed              \* history: posts of all completed UpdateStats calls

vars == <<proc, token, pcMain, cur, wakeAt, now, stats, remainingRequests,
          resetTime, mu, fetch, wg, pcPrinter, passed>>

Free == [kind |-> "free", id |-> 0]
ByPrinter == [kind |-> "printer", id |-> 0]
ByFetcher(f) == [kind |-> "fetcher", id |-> f]

AbsentHeader == [kind |-> "absent", val |-> 0]
NoBody == [kind |-> "none", children |-> <<>>]
\* pre and body are history: sm.stats at the launch, and the body read.
IdleFetch == [pc |-> "idle", status |-> 0, hRem |-> AbsentHeader, hReset |-> AbsentHeader,
              posts |-> <<>>, i |-> 0, deferUnlock |-> FALSE,
              pre |-> NewStats, body |-> NoBody]

AllIdle == \A f \in FetcherIds : fetch[f].pc = "idle"

\* The state main builds before its loop, the quota field apart.
Constructed ==
    /\ proc = "running"
    /\ token = "none"
    /\ pcMain = "token"
    /\ cur = 0
    /\ wakeAt = 0
    /\ now = 1
    /\ stats = NewStats
    /\ resetTime = ZeroTime
    /\ mu = Free
    /\ fetch = [f \in FetcherIds |-> IdleFetch]
    /\ wg = [f \in FetcherIds |-> 0]
    /\ pcPrinter = "off"
    /\ passed = <<>>

\* NewStatsManager leaves remainingRequests at 0, and main launches
\* FetchRedditData only when the field is positive.  To exercise the fetcher
\* the specification also starts managers whose quota is already positive;
\* 0 is the value the program constructs.
Init == Constructed /\ remainingRequests \in 0..MaxRemaining

\* ------------------------------------------------------------ sync.Mutex
\* No mutual exclusion: Lock returns at once.
LockEnabled_NoExclusion == TRUE

\* Lock returns only when nobody holds the mutex (the caller included).
LockEnabled == mu = Free

\* ------------------------------------------------------------ main
TokenOutcomes == {"ok", "transportError", "non200", "badJSON", "noStringField"}

\* main going on after an error from FetchAccessToken.
AfterToken_IgnoreErr(o) == IF o = "noStringField" THEN "crashed" ELSE "running"

\* What main does with FetchAccessToken's result: run, log.Fatal, or the panic
\* of the unchecked type assertion on access_token.
AfterToken(o) ==
    IF o = "ok" THEN "running"
    ELSE IF o = "noStringField" THEN "crashed"
    ELSE "exited"

MainToken ==
    /\ proc = "running" /\ pcMain = "token"
    /\ \E o \in TokenOutcomes :
        /\ token' = o
        /\ proc' = AfterToken(o)
        /\ IF AfterToken(o) = "running"
           THEN pcMain' = "eval" /\ pcPrinter' = "sleep"
           ELSE UNCHANGED <<pcMain, pcPrinter>>
    /\ UNCHANGED <<cur, wakeAt, now, stats, remainingRequests, resetTime, mu,
                   fetch, wg, passed>>

\* The scheduler fetching whatever the quota.
ShouldFetch_Always == TRUE

\* The scheduler's test.
ShouldFetch == remainingRequests > 0

\* wg.Add(1); go FetchRedditData(...)
MainLaunch ==
    /\ proc = "running" /\ pcMain = "eval"
    /\ ShouldFetch
    /\ \E f \in FetcherIds :
        /\ fetch[f].pc = "idle"
        /\ \A g \in FetcherIds : fetch[g].pc = "idle" => f <= g
        /\ fetch' = [fetch EXCEPT ![f] = [IdleFetch EXCEPT !.pc = "do", !.pre = stats]]
        /\ wg' = [wg EXCEPT ![f] = 1]
        /\ cur' = f
    /\ pcMain' = "wait"
    /\ UNCHANGED <<proc, token, wakeAt, now, stats, remainingRequests, resetTime,
                   mu, pcPrinter, passed>>

\* main not waiting for the goroutine it launched.
WaitDone_NoWait == TRUE

\* wg.Wait() returns when the counter is zero.
WaitDone == wg[cur] = 0

MainWait ==
    /\ proc = "running" /\ pcMain = "wait"
    /\ WaitDone
    /\ pcMain' = "pause"
    /\ wakeAt' = now + LimitInterval
    /\ cur' = 0
    /\ UNCHANGED <<proc, token, now, stats, remainingRequests, resetTime, mu,
                   fetch, wg, pcPrinter, passed>>

\* The countdown with its operands swapped.
Countdown_Reversed == now - resetTime

\* time.Until(sm.resetTime).Seconds()
Countdown == resetTime - now

\* The else branch: sleep until the reset when it lies ahead, else go on.
MainNoQuota ==
    /\ proc = "running" /\ pcMain = "eval"
    /\ ~ShouldFetch
    /\ IF Countdown > 0
       THEN pcMain' = "resetSleep" /\ wakeAt' = now + Countdown
       ELSE pcMain' = "pause" /\ wakeAt' = now + LimitInterval
    /\ UNCHANGED <<proc, token, cur, now, stats, remainingRequests, resetTime, mu,
                   fetch, wg, pcPrinter, passed>>

\* The clock after a sleep that ends at t.
AdvanceTo(t) == Max(now, Min(t, MaxTime))

\* main giving itself quota back once the reset wait is over.
MainResetWake_Refills ==
    /\ proc = "running" /\ pcMain = "resetSleep"
    /\ now' = AdvanceTo(wakeAt)
    /\ pcMain' = "pause"
    /\ wakeAt' = now' + LimitInterval
    /\ remainingRequests' = 1
    /\ UNCHANGED <<proc, token, cur, stats, resetTime, mu, fetch, wg, pcPrinter, passed>>

MainResetWake ==
    /\ proc = "running" /\ pcMain = "resetSleep"
    /\ now' = AdvanceTo(wakeAt)
    /\ pcMain' = "pause"
    /\ wakeAt' = now' + LimitInterval
    /\ UNCHANGED <<proc, token, cur, stats, remainingRequests, resetTime, mu,
                   fetch, wg, pcPrinter, passed>>

MainPauseWake ==
    /\ proc = "running" /\ pcMain = "pause"
    /\ now' = AdvanceTo(wakeAt)
    /\ pcMain' = "eval"
    /\ wakeAt' = 0
    /\ UNCHANGED <<proc, token, cur, stats, remainingRequests, resetTime, mu,
                   fetch, wg, pcPrinter, passed>>

Main ==
    \/ MainToken
    \/ MainLaunch
    \/ MainWait
    \/ MainNoQuota
    \/ MainResetWake
    \/ MainPauseWake

\* ------------------------------------------------------------ FetchRedditData
SetFetch(f, r) == fetch' = [fetch EXCEPT ![f] = r]

\* client.Do: a transport error, or a response (status and headers).
FetchDo(f) ==
    /\ proc = "running" /\ fetch[f].pc = "do"
    /\ \/ SetFetch(f, [fetch[f] EXCEPT !.pc = "return"])
       \/ \E s \in {StatusOK, StatusTooManyRequests}, r \in RemainingHeaders, t \in ResetHeaders :
            SetFetch(f, [fetch[f] EXCEPT !.pc = "status", !.status = s, !.hRem = r, !.hReset = t])
    /\ UNCHANGED <<proc, token, pcMain, cur, wakeAt, now, stats, remainingRequests,
                   resetTime, mu, wg, pcPrinter, passed>>

\* The headers read whatever the status.
AfterStatus_No429Test(s) == "hdrRemaining"

\* The 429 test, which comes before the headers are looked at.
AfterStatus(s) == IF s = StatusTooManyRequests THEN "return" ELSE "hdrRemaining"

FetchStatus(f) ==
    /\ proc = "running" /\ fetch[f].pc = "status"
    /\ SetFetch(f, [fetch[f] EXCEPT !.pc = AfterStatus(fetch[f].status)])
    /\ UNCHANGED <<proc, token, pcMain, cur, wakeAt, now, stats, remainingRequests,
                   resetTime, mu, wg, pcPrinter, passed>>

\* X-RateLimit-Remaining present: Lock, defer Unlock (to the function's return), Sscanf.
FetchHdrRemaining(f) ==
    /\ proc = "running" /\ fetch[f].pc = "hdrRemaining"
    /\ IF fetch[f].hRem.kind = "absent"
       THEN /\ SetFetch(f, [fetch[f] EXCEPT !.pc = "hdrReset"])
            /\ UNCHANGED <<mu, remainingRequests>>
       ELSE /\ LockEnabled
            /\ mu' = ByFetcher(f)
            /\ remainingRequests' = Sscanf(fetch[f].hRem, remainingRequests)
            /\ SetFetch(f, [fetch[f] EXCEPT !.pc = "hdrReset", !.deferUnlock = TRUE])
    /\ UNCHANGED <<proc, token, pcMain, cur, wakeAt, now, stats, resetTime, wg,
                   pcPrinter, passed>>

\* X-RateLimit-Reset present: resetTime is written, with the lock or without.
FetchHdrReset(f) ==
    /\ proc = "running" /\ fetch[f].pc = "hdrReset"
    /\ resetTime' = IF fetch[f].hReset.kind = "absent" THEN resetTime
                    ELSE ParseReset(fetch[f].hReset)
    /\ SetFetch(f, [fetch[f] EXCEPT !.pc = "decode"])
    /\ UNCHANGED <<proc, token, pcMain, cur, wakeAt, now, stats, remainingRequests,
                   mu, wg, pcPrinter, passed>>

\* Decode the body and walk data.children.  A decode error returns; a failed
\* type assertion panics in the goroutine, which ends the process.
FetchDecode(f) ==
    /\ proc = "running" /\ fetch[f].pc = "decode"
    /\ \E body \in Bodies(MaxServed - Len(passed)) :
        IF body.kind = "decodeErr"
        THEN SetFetch(f, [fetch[f] EXCEPT !.pc = "return", !.body = body]) /\ UNCHANGED proc
        ELSE IF WalkPanics(body)
        THEN SetFetch(f, [fetch[f] EXCEPT !.pc = "panic", !.body = body]) /\ proc' = "crashed"
        ELSE /\ SetFetch(f, [fetch[f] EXCEPT !.pc = "updLock", !.body = body,
                                              !.posts = WalkPosts(body)])
             /\ UNCHANGED proc
    /\ UNCHANGED <<token, pcMain, cur, wakeAt, now, stats, remainingRequests,
                   resetTime, mu, wg, pcPrinter, passed>>

\* sm.UpdateStats(posts): sm.mu.Lock()
FetchUpdLock(f) ==
    /\ proc = "running" /\ fetch[f].pc = "updLock"
    /\ LockEnabled
    /\ mu' = ByFetcher(f)
    /\ SetFetch(f, [fetch[f] EXCEPT !.pc = "updLoop", !.i = 1])
    /\ UNCHANGED <<proc, token, pcMain, cur, wakeAt, now, stats, remainingRequests,
                   resetTime, wg, pcPrinter, passed>>

\* sm.UpdateStats(posts): one iteration of the loop
FetchUpdLoop(f) ==
    /\ proc = "running" /\ fetch[f].pc = "updLoop"
    /\ fetch[f].i <= Len(fetch[f].posts)
    /\ stats' = UpdatePost(stats, fetch[f].posts[fetch[f].i])
    /\ SetFetch(f, [fetch[f] EXCEPT !.i = @ + 1])
    /\ UNCHANGED <<proc, token, pcMain, cur, wakeAt, now, remainingRequests,
                   resetTime, mu, wg, pcPrinter, passed>>

\* sm.UpdateStats(posts): the deferred sm.mu.Unlock()
FetchUpdUnlock(f) ==
    /\ proc = "running" /\ fetch[f].pc = "updLoop"
    /\ fetch[f].i > Len(fetch[f].posts)
    /\ mu' = Free
    /\ passed' = passed \o fetch[f].posts
    /\ SetFetch(f, [fetch[f] EXCEPT !.pc = "return"])
    /\ UNCHANGED <<proc, token, pcMain, cur, wakeAt, now, stats, remainingRequests,
                   resetTime, wg, pcPrinter>>

\* The deferred calls at return: sm.mu.Unlock() when it was deferred, wg.Done().
FetchReturn(f) ==
    /\ proc = "running" /\ fetch[f].pc = "return"
    /\ mu' = IF fetch[f].deferUnlock THEN Free ELSE mu
    /\ wg' = [wg EXCEPT ![f] = @ - 1]
    /\ SetFetch(f, IdleFetch)
    /\ UNCHANGED <<proc, token, pcMain, cur, wakeAt, now, stats, remainingRequests,
                   resetTime, pcPrinter, passed>>

Fetcher(f) ==
    \/ FetchDo(f)
    \/ FetchStatus(f)
    \/ FetchHdrRemaining(f)
    \/ FetchHdrReset(f)
    \/ FetchDecode(f)
    \/ FetchUpdLock(f)
    \/ FetchUpdLoop(f)
    \/ FetchUpdUnlock(f)
    \/ FetchReturn(f)

\* ------------------------------------------------------------ StartStatsPrinting
\* time.Sleep(interval) ends.
PrintWake ==
    /\ proc = "running" /\ pcPrinter = "sleep"
    /\ pcPrinter' = "lock"
    /\ UNCHANGED <<proc, token, pcMain, cur, wakeAt, now, stats, remainingRequests,
                   resetTime, mu, fetch, wg, passed>>

\* PrintStats: sm.mu.Lock()
PrintLock ==
    /\ proc = "running" /\ pcPrinter = "lock"
    /\ LockEnabled
    /\ mu' = ByPrinter
    /\ pcPrinter' = "print"
    /\ UNCHANGED <<proc, token, pcMain, cur, wakeAt, now, stats, remainingRequests,
                   resetTime, fetch, wg, passed>>

\* PrintStats: the reads and prints, then the deferred sm.mu.Unlock()
PrintDone ==
    /\ proc = "running" /\ pcPrinter = "print"
    /\ mu' = Free
    /\ pcPrinter' = "sleep"
    /\ UNCHANGED <<proc, token, pcMain, cur, wakeAt, now, stats, remainingRequests,
                   resetTime, fetch, wg, passed>>

Printer ==
    \/ PrintWake
    \/ PrintLock
    \/ PrintDone

\* ------------------------------------------------------------ specifications
Next ==
    \/ Main
    \/ \E f \in FetcherIds : Fetcher(f)
    \/ Printer

Spec == Init /\ [][Next]_vars

\* The Go scheduler runs every runnable goroutine, a sleeping goroutine wakes,
\* an HTTP exchange ends, and a goroutine waiting on a sync.Mutex that keeps
\* being released gets it (the mutex's starvation mode).
FairSpec ==
    /\ Spec
    /\ WF_vars(Main)
    /\ \A f \in FetcherIds : SF_vars(Fetcher(f))
    /\ SF_vars(Printer)

\* UpdateStats alone, called with any lists of posts on the manager
\* NewStatsManager returns.
UpdateStatsCall ==
    \E posts \in SeqsUpTo(RedditPost, MaxPosts) :
        /\ Len(passed) + Len(posts) <= MaxPassed
        /\ LockEnabled
        /\ stats' = UpdateStats(stats, posts)
        /\ passed' = passed \o posts
        /\ UNCHANGED <<proc, token, pcMain, cur, wakeAt, now, remainingRequests,
                       resetTime, mu, fetch, wg, pcPrinter>>

AggInit == Constructed /\ remainingRequests = 0

AggSpec == AggInit /\ [][UpdateStatsCall]_vars

\* ------------------------------------------------------------ claims
RECURSIVE MaxUpvotesOf(_)
MaxUpvotesOf(posts) ==
    IF Len(posts) = 1 THEN posts[1].Upvotes
    ELSE Max(posts[1].Upvotes, MaxUpvotesOf(Tail(posts)))

CountBy(posts, a) == Cardinality({i \in 1..Len(posts) : posts[i].Author = a})

InUpdate(f) == fetch[f].pc = "updLoop"

\* C1: once a post has been passed to UpdateStats, the upvote count of the
\* most-upvoted post equals the maximum upvote count of all posts passed so far
\* (zero and negative counts included).
C1_TopIsMaximum ==
    passed # <<>> => stats.MostUpvotedPost.Upvotes = MaxUpvotesOf(passed)

\* The posts a call in progress has applied so far.
Applied(f) == IF InUpdate(f) THEN SubSeq(fetch[f].posts, 1, fetch[f].i - 1) ELSE <<>>

RECURSIVE CountApplied(_, _)
CountApplied(n, a) == IF n = 0 THEN 0 ELSE CountBy(Applied(n), a) + CountApplied(n - 1, a)

C3_UpdateAtomic ==
    pcPrinter = "print" =>
        \/ stats = UpdateStats(NewStats, passed)
        \/ \E f \in FetcherIds :
              InUpdate(f) /\ stats = UpdateStats(NewStats, passed \o fetch[f].posts)

\* The printer wants the lock while a call has applied one post of two.
C3_Witness ==
    /\ pcPrinter = "lock"
    /\ \E f \in FetcherIds :
          InUpdate(f) /\ Len(fetch[f].posts) = 2 /\ fetch[f].i = 2

\* C4: whenever the scheduler evaluates with remainingRequests = 0 and the
\* reset time past or unset, it eventually launches a fetcher invocation.
C4_EventuallyLaunches ==
    (proc = "running" /\ pcMain = "eval" /\ remainingRequests = 0 /\ resetTime <= now)
        ~> ~AllIdle

C8_Non200IsFatal ==
    token = "non200" =>
        /\ proc = "exited"
        /\ pcMain = "token"
        /\ AllIdle
        /\ pcPrinter = "off"
        /\ stats = NewStats
        /\ passed = <<>>
        /\ ~ENABLED Next

C8_Witness == token = "non200"

\* C9: while an invocation whose response has status 429 is in flight, no
\* step changes the aggregator or the rate-limit fields, whatever headers the
\* response carries.
C9_429LeavesState ==
    [][(\E f \in FetcherIds : fetch[f].pc # "idle" /\ fetch[f].status = StatusTooManyRequests)
         => UNCHANGED <<stats, remainingRequests, resetTime>>]_vars

\* A 429 response with both headers, which would change both fields, returns.
C9_Witness ==
    \E f \in FetcherIds :
        /\ fetch[f].pc = "return"
        /\ fetch[f].status = StatusTooManyRequests
        /\ fetch[f].hRem.kind = "int" /\ fetch[f].hRem.val # remainingRequests
        /\ fetch[f].hReset.kind = "int" /\ fetch[f].hReset.val # resetTime

\* C10: at most one fetcher invocation is in flight, and main is at wg.Wait
\* (not pausing, not evaluating, not launching) while one is.
C10_NoOverlap ==
    /\ Cardinality({f \in FetcherIds : fetch[f].pc # "idle"}) <= 1
    /\ ~AllIdle => pcMain = "wait"

\* A fetch in flight in a later cycle (after a pause).
C10_Witness == pcMain = "wait" /\ ~AllIdle /\ now > 1

\* ------------------------------------------------------------ accesses to the shared fields
\* The invocation is at its write of sm.resetTime.
WritesResetTime(f) == fetch[f].pc = "hdrReset" /\ fetch[f].hReset.kind # "absent"

\* The invocation is inside UpdateStats' loop, writing sm.stats.  (Its write of
\* sm.remainingRequests is one step with the Lock before it.)
WritesLocked(f) == InUpdate(f)

HoldsLock(f) == mu = ByFetcher(f)

\* PrintStats is between its Lock and Unlock, reading stats, remainingRequests
\* and resetTime.
PrinterReading == pcPrinter = "print"

\* main is at its unlocked reads of sm.remainingRequests and sm.resetTime.
MainReading == pcMain = "eval"

C12_MissingTokenIsAuthError ==
    token = "noStringField" => proc = "exited"

RECURSIVE EarliestMax(_)
EarliestMax(posts) ==
    IF Len(posts) = 1 THEN posts[1]
    ELSE LET rest == EarliestMax(Tail(posts))
         IN  IF posts[1].Upvotes >= rest.Upvotes THEN posts[1] ELSE rest

\* C13: the most-upvoted post is absent until a post is passed to UpdateStats;
\* once one has been passed it is present and is the earliest-passed post among
\* those with the maximum upvote count, also for counts <= 0 and empty titles.
C13_TopIsEarliestMaximum ==
    IF passed = <<>>
    THEN ~PrintsTopPost(stats) /\ stats.MostUpvotedPost = ZeroPost
    ELSE PrintsTopPost(stats) /\ stats.MostUpvotedPost = EarliestMax(passed)

\* C14: outside an UpdateStats critical section the upvote count stored for
\* the most-upvoted post is at least the upvote count of every post ever
\* passed to UpdateStats.
C14_TopDominates ==
    (\A f \in FetcherIds : ~InUpdate(f)) =>
        \A i \in 1..Len(passed) : stats.MostUpvotedPost.Upvotes >= passed[i].Upvotes

\* A higher post was passed before a lower one.
C14_Witness ==
    /\ AllIdle
    /\ Len(passed) = 2
    /\ passed[1].Upvotes = 1
    /\ passed[2].Upvotes = 0 - 1

\* A step that starts a FetchRedditData invocation.
LaunchStep == \E f \in FetcherIds : fetch[f].pc = "idle" /\ fetch'[f].pc # "idle"

\* C15: a fetcher is launched only by an evaluation that read
\* remainingRequests > 0 (none when it read 0); after a launch main waits,
\* then pauses for LimitInterval, and only a pause (or the start) leads to the
\* next evaluation: between two launches lies the inter-request pause.
C15_LaunchOnlyWithQuota ==
    [][/\ LaunchStep => (pcMain = "eval" /\ remainingRequests > 0 /\ pcMain' = "wait")
       /\ (pcMain = "eval" /\ remainingRequests = 0) => ~LaunchStep
       /\ (pcMain = "wait" /\ pcMain' # "wait") => pcMain' = "pause"
       /\ (pcMain # "pause" /\ pcMain' = "pause") => wakeAt' = now' + LimitInterval
       /\ (pcMain # "eval" /\ pcMain' = "eval") => pcMain \in {"token", "pause"}]_vars

\* An evaluation read 0 after a fetch had stored a reset time: it pauses, no launch.
C15_Witness ==
    /\ pcMain = "pause" /\ AllIdle
    /\ remainingRequests = 0
    /\ resetTime # ZeroTime
    /\ now > 1

\* C16: an evaluation that reads remainingRequests = 0 with resetTime unset or
\* not in the future does no reset sleep (it goes straight to the
\* LimitInterval pause, the clock unchanged), and a reset sleep, when one
\* happens, lasts a positive time and ends at resetTime.
C16_NoWaitWhenResetPast ==
    [][/\ (pcMain = "eval" /\ remainingRequests = 0 /\ resetTime <= now /\ pcMain' # "eval")
            => (pcMain' = "pause" /\ now' = now /\ wakeAt' = now + LimitInterval)
       /\ (pcMain # "resetSleep" /\ pcMain' = "resetSleep")
            => (wakeAt' > now /\ wakeAt' = resetTime)]_vars

\* Such an evaluation has just gone to its pause, in a later cycle, the reset
\* time having come from a header.
C16_Witness ==
    /\ pcMain = "pause" /\ wakeAt = now + LimitInterval
    /\ remainingRequests = 0
    /\ resetTime >= 0 /\ resetTime < now
    /\ now = MaxTime

\* The invocation has got a non-429 response and is past both header blocks.
HeadersDone(f) ==
    \/ fetch[f].pc \in {"decode", "updLock", "updLoop", "panic"}
    \/ fetch[f].pc = "return" /\ fetch[f].status = StatusOK

\* C17: once an invocation with a non-429 response is past the header blocks,
\* remainingRequests is the integer of X-RateLimit-Remaining and resetTime the
\* time of the integer of X-RateLimit-Reset, whatever they were and whether or
\* not the body decodes; an absent header leaves its field as it was.
C17_HeadersOverwrite ==
    /\ [](\A f \in FetcherIds : HeadersDone(f) =>
            /\ fetch[f].hRem.kind = "int" => remainingRequests = fetch[f].hRem.val
            /\ fetch[f].hReset.kind = "int" => resetTime = fetch[f].hReset.val)
    /\ [][\A f \in FetcherIds :
            /\ (fetch[f].pc = "hdrRemaining" /\ fetch[f].hRem.kind = "absent")
                  => remainingRequests' = remainingRequests
            /\ (fetch[f].pc = "hdrReset" /\ fetch[f].hReset.kind = "absent")
                  => resetTime' = resetTime]_vars

\* Both headers changed their fields and the body then failed to decode.
C17_Witness ==
    \E f \in FetcherIds :
        /\ fetch[f].pc = "return" /\ fetch[f].status = StatusOK
        /\ fetch[f].hRem.kind = "int" /\ fetch[f].hRem.val = 0
        /\ fetch[f].hReset.kind = "int" /\ fetch[f].hReset.val = MaxTime

\* The body cannot be decoded, or not every child of it can be walked.
BodyFails(b) ==
    \/ b.kind \in {"decodeErr", "badShape"}
    \/ \E i \in 1..Len(b.children) : ~b.children[i].ok

\* C18: a fetch cycle has no partial success: while and after an invocation
\* runs, the aggregator differs from what it was at the launch only if the
\* body decoded to a listing every child of which was extracted; after a
\* decode failure or a child that cannot be walked (the last one included)
\* counters and most-upvoted post are as before the cycle.
C18_NoPartialSuccess ==
    \A f \in FetcherIds :
        (fetch[f].pc # "idle" /\ stats # fetch[f].pre) =>
            (fetch[f].body.kind = "listing" /\ ~BodyFails(fetch[f].body))

\* The walk failed at the last child after it had extracted the first.
C18_Witness ==
    \E f \in FetcherIds :
        /\ fetch[f].pc = "panic"
        /\ Len(fetch[f].body.children) = 2
        /\ fetch[f].body.children[1].ok
        /\ ~fetch[f].body.children[2].ok
        /\ stats = fetch[f].pre

\* C19: remainingRequests and resetTime are changed only by a step of a
\* FetchRedditData invocation that has received its response, at its header
\* blocks; main (its reset wait and pause included), PrintStats and
\* UpdateStats leave both as they are.
C19_OnlyFetcherWritesRateLimit ==
    [][/\ remainingRequests' # remainingRequests =>
            \E f \in FetcherIds : fetch[f].pc = "hdrRemaining" /\ fetch[f].status # 0
                                  /\ fetch'[f].pc = "hdrReset"
       /\ resetTime' # resetTime =>
            \E f \in FetcherIds : fetch[f].pc = "hdrReset" /\ fetch[f].status # 0
                                  /\ fetch'[f].pc = "decode"]_vars

\* A fetch has brought remainingRequests to 0 and set resetTime.
C19_Witness ==
    \E f \in FetcherIds :
        /\ fetch[f].pc = "decode"
        /\ fetch[f].hRem.kind = "int" /\ remainingRequests = 0
        /\ fetch[f].hReset.kind = "int" /\ resetTime = fetch[f].hReset.val

====
